---- MODULE Spec2Model ----
(***************************************************************************)
(* AI code executor of excel-ai-agent: the static validator                *)
(* (validator.py), the Docker sandbox (docker_sandbox.py) and the          *)
(* orchestrator that sequences them (executor.py).                         *)
(*                                                                         *)
(* A program text is modelled by what ast.parse makes of it: either the    *)
(* exception ast.parse raises, or the nodes ast.walk yields.  Dotted       *)
(* module names are sequences of segments and file paths are sequences of  *)
(* characters, so split('.')[0] and str.startswith are computed.           *)
(***************************************************************************)
EXTENDS Integers, Sequences, FiniteSets, TLC

\* ------------------------------------------------------------------ bounds
\* The longest program (in nodes of interest) the generator returns.
MaxNodes == 2

\* ------------------------------------------------- validator.py: constants
LOW_RISK_IMPORTS ==
    { "pandas", "pd", "openpyxl", "numpy", "np", "pathlib", "Path",
      "datetime", "dt", "json", "csv", "re", "math", "statistics",
      "decimal", "Decimal", "collections" }

MEDIUM_RISK_IMPORTS ==
    { "requests", "urllib", "urllib3", "xlrd", "pyxlsb", "xlwings", "httpx" }

HIGH_RISK_IMPORTS ==
    { "os", "sys", "subprocess", "shutil", "socket", "pickle", "shelve",
      "importlib", "__import__", "ctypes", "cffi", "multiprocessing",
      "threading", "pty", "termios", "fcntl", "ioctl" }

DANGEROUS_BUILTINS == { "eval", "exec", "compile", "__import__", "open", "input" }

\* The two literal prefixes of _check_file_operations, as characters.
InputPrefix == << "/", "t", "m", "p", "/", "i", "n", "p", "u", "t" >>
OutputPrefix == << "/", "t", "m", "p", "/", "o", "u", "t", "p", "u", "t" >>

\* ------------------------------------------------------ syntax-tree nodes
\* One shape for every node ast.walk yields:
\*   type  "Import" | "ImportFrom" | "Call"
\*   mods  Import: the dotted name of each alias; ImportFrom: <<module>>,
\*         or << <<>> >> when node.module is None (from . import x)
\*   fkind "Name" (f(...)), "AttrName" (x.f(...)), "AttrOther" (x.y.f(...),
\*         g().f(...)): the shape of node.func
\*   fname node.func.id or node.func.attr
\*   akind "none" (no positional argument), "str" (a str Constant),
\*         "const" (another Constant), "dyn" (any other expression)
\*   path  the str Constant, as characters
NoPath == << >>

ImportNode(mods) ==
    [type |-> "Import", mods |-> mods, fkind |-> "", fname |-> "",
     akind |-> "none", path |-> NoPath]

ImportFromNode(module) ==
    [type |-> "ImportFrom", mods |-> << module >>, fkind |-> "", fname |-> "",
     akind |-> "none", path |-> NoPath]

CallNode(fkind, fname, akind, path) ==
    [type |-> "Call", mods |-> << >>, fkind |-> fkind, fname |-> fname,
     akind |-> akind, path |-> path]

EtcPasswd == << "/", "e", "t", "c", "/", "p", "a", "s", "s", "w", "d" >>
TmpInputA == << "/", "t", "m", "p", "/", "i", "n", "p", "u", "t", "/", "a" >>
TmpOutputR == << "/", "t", "m", "p", "/", "o", "u", "t", "p", "u", "t", "/", "r" >>
TmpInputs == << "/", "t", "m", "p", "/", "i", "n", "p", "u", "t", "s" >>
TmpIn == << "/", "t", "m", "p", "/", "i", "n" >>
TmpInputUp ==
    << "/", "t", "m", "p", "/", "i", "n", "p", "u", "t", "/", ".", ".", "/", "x" >>
ModeR == << "r" >>

\* The statements and calls the generated programs are made of.
Nodes ==
    { ImportNode(<< << "os", "path" >> >>),                  \* import os.path
      ImportFromNode(<< "subprocess" >>),                    \* from subprocess import run
      ImportNode(<< << "requests" >> >>),                    \* import requests
      ImportFromNode(<< "urllib", "request" >>),             \* from urllib.request import urlopen
      ImportNode(<< << "boto3" >> >>),                       \* import boto3
      ImportNode(<< << "pandas" >>, << "json", "decoder" >> >>), \* import pandas, json.decoder
      ImportFromNode(<< >>),                                 \* from . import helpers
      CallNode("Name", "eval", "dyn", NoPath),               \* eval(s)
      CallNode("AttrName", "eval", "str", ModeR),            \* df.eval("r")
      CallNode("AttrOther", "exec", "dyn", NoPath),          \* a.b.exec(s)
      CallNode("Name", "input", "none", NoPath),             \* input()
      CallNode("Name", "open", "str", EtcPasswd),            \* open("/etc/passwd")
      CallNode("Name", "open", "str", TmpInputA),            \* open("/tmp/input/a")
      CallNode("Name", "open", "str", TmpOutputR),           \* open("/tmp/output/r")
      CallNode("Name", "open", "str", TmpIn),                \* open("/tmp/in")
      CallNode("Name", "open", "str", TmpInputs),            \* open("/tmp/inputs")
      CallNode("Name", "open", "str", TmpInputUp),           \* open("/tmp/input/../x")
      CallNode("Name", "open", "dyn", NoPath),               \* open(path)
      CallNode("Name", "open", "const", NoPath),             \* open(0)
      CallNode("Name", "open", "none", NoPath),              \* open()
      CallNode("AttrName", "open", "str", ModeR),            \* f.open("r")
      CallNode("AttrOther", "open", "dyn", NoPath) }         \* a.b.open(p)

\* What ast.parse does with a program text: it returns the tree, raises
\* SyntaxError, or raises another Exception (ValueError for a null byte
\* before Python 3.12, RecursionError, MemoryError).
ParseOutcomes == { "ok", "SyntaxError", "ValueError" }

\* The program texts: unparseable ones, and every sequence of at most
\* MaxNodes nodes.
Programs ==
    { [parse |-> p, nodes |-> << >>] : p \in ParseOutcomes \ { "ok" } }
    \cup { [parse |-> "ok", nodes |-> ns] :
             ns \in UNION { [1..n -> Nodes] : n \in 0..MaxNodes } }

\* ------------------------------------------------------------ helpers
\* str.startswith
StartsWith(s, prefix) ==
    /\ Len(s) >= Len(prefix)
    /\ SubSeq(s, 1, Len(prefix)) = prefix

\* list(a_set): the elements once each, in the order the set yields them.
ListOf(S) ==
    CHOOSE q \in [1..Cardinality(S) -> S] :
        \A i, j \in 1..Cardinality(S) : i /= j => q[i] /= q[j]

Range(q) == { q[i] : i \in DOMAIN q }

\* Variant: the last dotted segment is taken instead of the first.
MapRootsLastSegment(q) == [i \in DOMAIN q |-> q[i][Len(q[i])]]

\* [f(x) for x in q]
RECURSIVE MapRoots(_)
MapRoots(q) ==
    IF q = << >> THEN << >>
    ELSE << Head(Head(q)) >> \o MapRoots(Tail(q))

\* A formatted message: the fixed text and the items joined into it.
None == [isNone |-> TRUE, msg |-> "", items |-> << >>]
Message(msg, items) == [isNone |-> FALSE, msg |-> msg, items |-> items]
NoExplanation == [text |-> "", known |-> << >>, unknown |-> << >>]

\* ------------------------------------------- validator.py: ValidationResult
\* The dataclass with the defaults __post_init__ fills in.
ValidationResult(is_safe, risk_level, requires_permission, explanation, restricted_imports, reason, warnings, allowed_imports) ==
    [is_safe |-> is_safe, risk_level |-> risk_level,
     requires_permission |-> requires_permission, explanation |-> explanation,
     code_preview |-> "", restricted_imports |-> restricted_imports,
     reason |-> reason, warnings |-> warnings,
     allowed_imports |-> allowed_imports]

\* --------------------------------------------- validator.py: _check_imports
\* module_name = alias.name.split('.')[0] / node.module.split('.')[0], for
\* every Import alias and every ImportFrom whose module is not None.
RECURSIVE RootModules(_)
RootModules(tree) ==
    IF tree = << >> THEN << >>
    ELSE LET node == Head(tree) IN
         (IF node.type = "Import" THEN MapRoots(node.mods)
          ELSE IF node.type = "ImportFrom" /\ node.mods[1] /= << >>
               THEN << Head(node.mods[1]) >>
          ELSE << >>) \o RootModules(Tail(tree))

\* Variant: the final else files an unknown root module as low risk.
ImportTierUnknownLow(module_name) ==
    IF module_name \in HIGH_RISK_IMPORTS THEN "high"
    ELSE IF module_name \in MEDIUM_RISK_IMPORTS THEN "medium"
    ELSE "low"

\* The if / elif chain that files a root module into one of the three sets.
ImportTier(module_name) ==
    IF module_name \in HIGH_RISK_IMPORTS THEN "high"
    ELSE IF module_name \in MEDIUM_RISK_IMPORTS THEN "medium"
    ELSE IF module_name \in LOW_RISK_IMPORTS THEN "low"
    ELSE "medium"

ImportsOfTier(tree, tier) ==
    { m \in Range(RootModules(tree)) : ImportTier(m) = tier }

_generate_permission_explanation(imports) ==
    LET import_list == ListOf(imports)
        known == SelectSeq(import_list, LAMBDA m : m \in MEDIUM_RISK_IMPORTS)
        unknown == SelectSeq(import_list, LAMBDA m : m \notin MEDIUM_RISK_IMPORTS)
    IN IF Len(import_list) = 1
       THEN [text |-> IF known /= << >> THEN "Code needs library"
                      ELSE "Code needs library (not in standard whitelist)",
             known |-> known, unknown |-> unknown]
       ELSE [text |-> "Code needs these libraries", known |-> known,
             unknown |-> unknown]

\* Variant: the MEDIUM branch is tested before the HIGH branch.
_check_imports_MediumFirst(tree) ==
    LET low_risk_imports == ImportsOfTier(tree, "low")
        medium_risk_imports == ImportsOfTier(tree, "medium")
        high_risk_imports == ImportsOfTier(tree, "high")
    IN IF medium_risk_imports /= { }
       THEN ValidationResult(TRUE, "medium", TRUE,
                _generate_permission_explanation(medium_risk_imports),
                ListOf(medium_risk_imports), None,
                << Message("Requires user permission for: ",
                           ListOf(medium_risk_imports)) >>,
                low_risk_imports)
       ELSE IF high_risk_imports /= { }
       THEN ValidationResult(FALSE, "high", FALSE, NoExplanation,
                ListOf(high_risk_imports),
                Message("HIGH RISK imports detected (always blocked): ",
                        ListOf(high_risk_imports)),
                << >>, { })
       ELSE ValidationResult(TRUE, "low", FALSE, NoExplanation, << >>, None,
                << >>, low_risk_imports)

_check_imports(tree) ==
    LET low_risk_imports == ImportsOfTier(tree, "low")
        medium_risk_imports == ImportsOfTier(tree, "medium")
        high_risk_imports == ImportsOfTier(tree, "high")
    IN IF high_risk_imports /= { }
       THEN ValidationResult(FALSE, "high", FALSE, NoExplanation,
                ListOf(high_risk_imports),
                Message("HIGH RISK imports detected (always blocked): ",
                        ListOf(high_risk_imports)),
                << >>, { })
       ELSE IF medium_risk_imports /= { }
       THEN ValidationResult(TRUE, "medium", TRUE,
                _generate_permission_explanation(medium_risk_imports),
                ListOf(medium_risk_imports), None,
                << Message("Requires user permission for: ",
                           ListOf(medium_risk_imports)) >>,
                low_risk_imports)
       ELSE ValidationResult(TRUE, "low", FALSE, NoExplanation, << >>, None,
                << >>, low_risk_imports)

\* ------------------------------------ validator.py: _check_dangerous_builtins
\* Variant: only a Name callee gives a func_name; every Attribute is skipped.
BuiltinFuncNameBareOnly(node) ==
    IF node.fkind = "Name" THEN node.fname ELSE ""

\* func_name of a Call node in the builtin scan: node.func.id for a Name;
\* for an Attribute, nothing when node.func.value is a Name and
\* node.func.attr otherwise.  "" stands for None.
BuiltinFuncName(node) ==
    IF node.fkind = "Name" THEN node.fname
    ELSE IF node.fkind = "AttrName" THEN ""
    ELSE node.fname

\* Variant: the attr of every Attribute call is taken, whatever its receiver.
IsBuiltinViolationAnyAttribute(node) ==
    /\ node.type = "Call"
    /\ node.fname \in DANGEROUS_BUILTINS
    /\ node.fname /= "open"

\* The calls the scan appends a violation for (open is left to the file scan).
IsBuiltinViolation(node) ==
    /\ node.type = "Call"
    /\ BuiltinFuncName(node) /= ""
    /\ BuiltinFuncName(node) \in DANGEROUS_BUILTINS
    /\ BuiltinFuncName(node) /= "open"

RECURSIVE BuiltinViolations(_)
BuiltinViolations(tree) ==
    IF tree = << >> THEN << >>
    ELSE (IF IsBuiltinViolation(Head(tree))
          THEN << Message("Dangerous builtin function call detected: ",
                          << BuiltinFuncName(Head(tree)) >>) >>
          ELSE << >>) \o BuiltinViolations(Tail(tree))

_check_dangerous_builtins(tree) ==
    LET violations == BuiltinViolations(tree)
    IN IF violations /= << >>
       THEN ValidationResult(FALSE, "high", FALSE, NoExplanation, << >>,
                Message("File operation violations: ", violations), << >>, { })
       ELSE ValidationResult(TRUE, "low", FALSE, NoExplanation, << >>, None,
                << >>, { })

\* -------------------------------------- validator.py: _check_file_operations
\* Variant: only a Name callee is looked at by the file scan.
IsOpenCallBareOnly(node) ==
    /\ node.type = "Call"
    /\ node.fkind = "Name"
    /\ node.fname = "open"

\* func_name in the file scan: node.func.id or node.func.attr.
IsOpenCall(node) ==
    /\ node.type = "Call"
    /\ node.fkind \in { "Name", "AttrName", "AttrOther" }
    /\ node.fname = "open"

\* node.args and isinstance(node.args[0], ast.Constant)
HasConstantArg(node) == node.akind \in { "str", "const" }

\* Variant: any path under /tmp is accepted.
AllowedPathAnyTmp(file_path) ==
    StartsWith(file_path, << "/", "t", "m", "p", "/" >>)

AllowedPath(file_path) ==
    StartsWith(file_path, InputPrefix) \/ StartsWith(file_path, OutputPrefix)

IsFileViolation(node) ==
    /\ IsOpenCall(node)
    /\ HasConstantArg(node)
    /\ node.akind = "str"
    /\ ~AllowedPath(node.path)

IsDynamicOpen(node) == IsOpenCall(node) /\ ~HasConstantArg(node)

DynamicPathWarning ==
    Message("Dynamic file path in open(). Ensure it accesses only /tmp/input or /tmp/output.",
            << >>)

RECURSIVE FileViolations(_)
FileViolations(tree) ==
    IF tree = << >> THEN << >>
    ELSE (IF IsFileViolation(Head(tree))
          THEN << Message("Unauthorized file access: ", << Head(tree).path >>) >>
          ELSE << >>) \o FileViolations(Tail(tree))

RECURSIVE FileWarnings(_)
FileWarnings(tree) ==
    IF tree = << >> THEN << >>
    ELSE (IF IsDynamicOpen(Head(tree)) THEN << DynamicPathWarning >> ELSE << >>)
         \o FileWarnings(Tail(tree))

_check_file_operations(tree) ==
    LET violations == FileViolations(tree)
        warnings == FileWarnings(tree)
    IN IF violations /= << >>
       THEN ValidationResult(FALSE, "high", FALSE, NoExplanation, << >>,
                Message("File operation violations: ", violations), warnings, { })
       ELSE ValidationResult(TRUE, "low", FALSE, NoExplanation, << >>, None,
                warnings, { })

\* ---------------------------------------------------- validator.py: validate
\* ast.parse(code): the tree, or the exception raised.
ast_parse(code) ==
    IF code.parse = "ok" THEN [raised |-> "", tree |-> code.nodes]
    ELSE [raised |-> code.parse, tree |-> << >>]

\* Variant: the SyntaxError branch gives the result no reason.
SyntaxErrorResultNoReason ==
    ValidationResult(FALSE, "high", FALSE, NoExplanation, << >>, None, << >>, { })

SyntaxErrorResult ==
    ValidationResult(FALSE, "high", FALSE, NoExplanation, << >>,
        Message("Syntax error in generated code: ", << "SyntaxError" >>), << >>, { })

OtherErrorResult(e) ==
    ValidationResult(FALSE, "high", FALSE, NoExplanation, << >>,
        Message("Validation failed: ", << e >>), << >>, { })

\* Variant: the final pass builds its result without the import stage's
\* requires_permission (the dataclass default, False).
PassedResultNoPermission(import_result, builtin_result, file_result) ==
    ValidationResult(TRUE, import_result.risk_level, FALSE,
        import_result.explanation, import_result.restricted_imports, None,
        import_result.warnings \o builtin_result.warnings \o file_result.warnings,
        import_result.allowed_imports)

\* Variant: the final pass keeps only the import stage's warnings.
PassedResultImportWarnings(import_result, builtin_result, file_result) ==
    ValidationResult(TRUE, import_result.risk_level,
        import_result.requires_permission, import_result.explanation,
        import_result.restricted_imports, None, import_result.warnings,
        import_result.allowed_imports)

\* All checks passed: the import stage's verdict with every stage's warnings.
PassedResult(import_result, builtin_result, file_result) ==
    ValidationResult(TRUE, import_result.risk_level,
        import_result.requires_permission, import_result.explanation,
        import_result.restricted_imports, None,
        import_result.warnings \o builtin_result.warnings \o file_result.warnings,
        import_result.allowed_imports)

\* Variant: a MEDIUM import-stage verdict is returned at once, before the
\* builtin and file scans.
validateReturnsMediumAtImportStage(code) ==
    LET parsed == ast_parse(code)
        import_result == _check_imports(parsed.tree)
        builtin_result == _check_dangerous_builtins(parsed.tree)
        file_result == _check_file_operations(parsed.tree)
    IN IF parsed.raised = "SyntaxError" THEN SyntaxErrorResult
       ELSE IF parsed.raised /= "" THEN OtherErrorResult(parsed.raised)
       ELSE IF ~import_result.is_safe \/ import_result.requires_permission
            THEN import_result
       ELSE IF ~builtin_result.is_safe THEN builtin_result
       ELSE IF ~file_result.is_safe THEN file_result
       ELSE PassedResult(import_result, builtin_result, file_result)

\* Variant: the file scan is consulted before the builtin scan.
validateFileStageFirst(code) ==
    LET parsed == ast_parse(code)
        import_result == _check_imports(parsed.tree)
        builtin_result == _check_dangerous_builtins(parsed.tree)
        file_result == _check_file_operations(parsed.tree)
    IN IF parsed.raised = "SyntaxError" THEN SyntaxErrorResult
       ELSE IF parsed.raised /= "" THEN OtherErrorResult(parsed.raised)
       ELSE IF ~import_result.is_safe THEN import_result
       ELSE IF ~file_result.is_safe THEN file_result
       ELSE IF ~builtin_result.is_safe THEN builtin_result
       ELSE PassedResult(import_result, builtin_result, file_result)

validate(code) ==
    LET parsed == ast_parse(code)
        import_result == _check_imports(parsed.tree)
        builtin_result == _check_dangerous_builtins(parsed.tree)
        file_result == _check_file_operations(parsed.tree)
    IN IF parsed.raised = "SyntaxError" THEN SyntaxErrorResult
       ELSE IF parsed.raised /= "" THEN OtherErrorResult(parsed.raised)
       ELSE IF ~import_result.is_safe THEN import_result
       ELSE IF ~builtin_result.is_safe THEN builtin_result
       ELSE IF ~file_result.is_safe THEN file_result
       ELSE PassedResult(import_result, builtin_result, file_result)

\* ------------------------------------------- docker_sandbox.py: ExecutionResult
ExecutionResult(success, output, error, exit_code, output_files) ==
    [success |-> success, output |-> output, error |-> error,
     exit_code |-> exit_code, output_files |-> output_files]

\* Variant: the except branch re-raises, so no ExecutionResult is returned.
FailureResultReraised(e) ==
    ExecutionResult(FALSE, "", None, -1, << >>)

\* Variant: the except branch leaves exit_code at 0.
FailureResultExitZero(e) ==
    ExecutionResult(FALSE, "", Message("Docker execution error: ", << e >>), 0, << >>)

\* The except Exception branch of execute_code.
FailureResult(e) ==
    ExecutionResult(FALSE, "", Message("Docker execution error: ", << e >>), -1, << >>)

\* How a program can end inside the container: its exit status and streams.
ProgramOutcomes ==
    { [exit_code |-> 0, output |-> "stdout", error |-> ""],
      [exit_code |-> 1, output |-> "partial", error |-> "Traceback"],
      [exit_code |-> 2, output |-> "", error |-> ""] }    \* raise SystemExit(2)

\* A tar member of the archive of /tmp/output: its name as path segments.
Member(name, isfile, data) == [name |-> name, isfile |-> isfile, data |-> data]

\* What container.get_archive('/tmp/output') can answer.
Archives ==
    { [status |-> "NotFound", members |-> << >>],
      [status |-> "Error", members |-> << >>],
      [status |-> "ok", members |-> << Member(<< "output" >>, FALSE, "") >>],
      [status |-> "ok",
       members |-> << Member(<< "output" >>, FALSE, ""),
                      Member(<< "output", "result.csv" >>, TRUE, "bytes1") >>],
      [status |-> "ok",
       members |-> << Member(<< "output" >>, FALSE, ""),
                      Member(<< "output", "a", "x.csv" >>, TRUE, "bytes1"),
                      Member(<< "output", "b", "x.csv" >>, TRUE, "bytes2") >>] }

\* os.path.basename(member.name)
Basename(name) == name[Len(name)]

\* The loop over tar.getmembers(): output_files[filename] = file_obj.read()
RECURSIVE ExtractMembers(_, _)
ExtractMembers(members, output_files) ==
    IF members = << >> THEN output_files
    ELSE LET member == Head(members) IN
         ExtractMembers(Tail(members),
             IF member.isfile /\ member.name /= << "output" >>
             THEN (Basename(member.name) :> member.data) @@ output_files
             ELSE output_files)

\* Variant: every member of the archive is returned, the directory entry
\* of the output root included.
_get_output_files_EveryMember(archive) ==
    IF archive.status = "ok"
    THEN [k \in { Basename(archive.members[i].name) : i \in DOMAIN archive.members }
            |-> "bytes"]
    ELSE << >>

\* _get_output_files: NotFound and every other exception give {}.
_get_output_files(archive) ==
    IF archive.status = "ok" THEN ExtractMembers(archive.members, << >>)
    ELSE << >>

\* ------------------------------------------------------ executor.py: inputs
\* An uploaded file path: its name, and whether open(file_path, "rb") works.
UploadedFile(name, readable) == [name |-> name, readable |-> readable]

Uploads ==
    { << >>,
      << UploadedFile("data.csv", TRUE) >>,
      << UploadedFile("gone.csv", FALSE) >> }

\* input_files[file_path.name] = f.read()
RECURSIVE ReadUploads(_)
ReadUploads(files) ==
    IF files = << >> THEN << >>
    ELSE (Head(files).name :> "bytes") @@ ReadUploads(Tail(files))

AllReadable(files) == \A i \in DOMAIN files : files[i].readable

\* ------------------------------------------------------------------ state
VARIABLES
    pc,                 \* where execute_task / execute_code stands
    uploaded_files,     \* execute_task's uploaded_files
    generated_code,     \* the program text _generate_code returned
    validation_result,  \* validator.validate(generated_code)
    input_files,        \* the dict read from uploaded_files
    container,          \* execute_code's local: 0 is None, else the id
    runtime,            \* the containers the Docker daemon holds: id -> status
    proc,               \* the python process of exec_run
    exec_result,        \* _execute_python_code's dict
    execution_result,   \* the ExecutionResult execute_code returns
    sandbox_calls,      \* how many times sandbox.execute_code was called
    created,            \* the ids of the containers execute_code created
    task_result,        \* the dict execute_task returns
    archive,            \* what get_archive('/tmp/output') answered to the harvest
    calls,              \* per caller of one DockerSandbox: its execute_code frame
    daemon,             \* the containers behind the shared self.client: id -> status
    creator,            \* container id -> the call that created it
    users,              \* container id -> the calls that operated on it
    requests,           \* per HTTP request: where its handler coroutine stands
    loop                \* the request whose coroutine runs on the event loop

\* The variables of one execute_task run, and those of several callers of
\* execute_code on one DockerSandbox.
taskvars ==
    << pc, uploaded_files, generated_code, validation_result, input_files,
       container, runtime, proc, exec_result, execution_result, sandbox_calls,
       created, task_result, archive >>
callvars == << calls, daemon, creator, users >>
\* The variables of several requests handled on one event loop.
loopvars == << requests, loop >>
vars == << taskvars, callvars, loopvars >>

NoCode == [parse |-> "ok", nodes |-> << >>]
NoValidation ==
    ValidationResult(FALSE, "", FALSE, NoExplanation, << >>, None, << >>, { })
NoExec == [exit_code |-> -1, output |-> "", error |-> ""]
NoExecution == ExecutionResult(FALSE, "", None, -1, << >>)
Pending == [pending |-> TRUE]
NoProc == [state |-> "none", exit_code |-> -1, output |-> "", error |-> ""]
Running == [state |-> "running", exit_code |-> -1, output |-> "", error |-> ""]
Exited(outcome) ==
    [state |-> "exited", exit_code |-> outcome.exit_code,
     output |-> outcome.output, error |-> outcome.error]

\* The harvest has not asked for the archive.
NoArchive == [status |-> "none", members |-> << >>]

\* The requests the API serves on one event loop.
Requests == { "r1", "r2", "r3" }
\* A request that has not been received.
NoRequest == [pc |-> "none", outcome |-> ""]

\* The callers that share one DockerSandbox instance.
Callers == { "t1", "t2" }
\* A caller outside execute_code: no frame, no local container.
NoCall == [pc |-> "idle", container |-> 0, n |-> 0, staged |-> FALSE]

Init ==
    /\ pc = "generate"
    /\ uploaded_files \in Uploads
    /\ generated_code = NoCode
    /\ validation_result = NoValidation
    /\ input_files = << >>
    /\ container = 0
    /\ runtime = << >>
    /\ proc = NoProc
    /\ exec_result = NoExec
    /\ execution_result = NoExecution
    /\ sandbox_calls = 0
    /\ created = { }
    /\ task_result = Pending
    /\ archive = NoArchive
    /\ calls = [c \in Callers |-> NoCall]
    /\ daemon = << >>
    /\ creator = << >>
    /\ users = << >>
    /\ requests = [r \in Requests |-> NoRequest]
    /\ loop = "idle"

\* ------------------------------------------------- executor.py: execute_task
\* Step 1: _generate_code returns the program text extracted from the model's
\* answer, or raises RuntimeError, which the outer except turns into a result.
Generate ==
    /\ pc = "generate"
    /\ \/ \E code \in Programs :
            /\ generated_code' = code
            /\ pc' = "validate"
            /\ UNCHANGED task_result
       \/ /\ task_result' = [success |-> FALSE,
                             error |-> Message("Failed to generate code: ", << >>)]
          /\ pc' = "done"
          /\ UNCHANGED generated_code
    /\ UNCHANGED << uploaded_files, validation_result, input_files, container,
                    runtime, proc, exec_result, execution_result, sandbox_calls,
                    created >>
    /\ UNCHANGED << archive, callvars, loopvars >>

\* Variant: the blocked result leaves the verdict's reason out.
BlockedResultNoReason(v) ==
    [success |-> FALSE,
     error |-> Message("Generated code failed security validation", << >>),
     reason |-> None]

BlockedResult(v) ==
    [success |-> FALSE,
     error |-> Message("Generated code failed security validation", << >>),
     reason |-> v.reason]

\* Variant: code_preview is the verdict's own code_preview, the empty text.
PermissionResultVerdictPreview(v, code) ==
    [success |-> FALSE, requires_permission |-> TRUE, risk_level |-> "medium",
     explanation |-> v.explanation, restricted_imports |-> v.restricted_imports,
     code_preview |-> NoCode,
     message |-> "This operation requires your permission to proceed"]

PermissionResult(v, code) ==
    [success |-> FALSE, requires_permission |-> TRUE, risk_level |-> "medium",
     explanation |-> v.explanation, restricted_imports |-> v.restricted_imports,
     code_preview |-> code,
     message |-> "This operation requires your permission to proceed"]

\* Variant: Check 2 (requires_permission) is missing.
AfterValidationNoPermissionCheck(v) ==
    IF v.is_safe = FALSE THEN "blocked" ELSE "execute"

\* Where execute_task goes with a verdict: Check 1 returns on is_safe == False,
\* Check 2 returns on requires_permission, anything else goes on to Step 3.
AfterValidation(v) ==
    IF v.is_safe = FALSE THEN "blocked"
    ELSE IF v.requires_permission THEN "permission"
    ELSE "execute"

\* Step 2 and the two checks on the verdict.
Validate ==
    /\ pc = "validate"
    /\ LET v == validate(generated_code) IN
         /\ validation_result' = v
         /\ CASE AfterValidation(v) = "blocked" ->
                   /\ task_result' = BlockedResult(v)
                   /\ pc' = "done"
              [] AfterValidation(v) = "permission" ->
                   /\ task_result' = PermissionResult(v, generated_code)
                   /\ pc' = "done"
              [] OTHER ->
                   /\ pc' = "read_files"
                   /\ UNCHANGED task_result
    /\ UNCHANGED << uploaded_files, generated_code, input_files, container,
                    runtime, proc, exec_result, execution_result, sandbox_calls,
                    created >>
    /\ UNCHANGED << archive, callvars, loopvars >>

\* Step 3, first half: read every uploaded file, then call
\* sandbox.execute_code; an unreadable file raises into the inner except.
ReadFiles ==
    /\ pc = "read_files"
    /\ IF AllReadable(uploaded_files)
       THEN /\ input_files' = ReadUploads(uploaded_files)
            /\ sandbox_calls' = sandbox_calls + 1
            /\ pc' = "create"
            /\ UNCHANGED task_result
       ELSE /\ task_result' = [success |-> FALSE,
                               error |-> Message("Docker execution error: ",
                                                 << "FileNotFoundError" >>)]
            /\ pc' = "done"
            /\ UNCHANGED << input_files, sandbox_calls >>
    /\ UNCHANGED << uploaded_files, generated_code, validation_result, container,
                    runtime, proc, exec_result, execution_result, created >>
    /\ UNCHANGED << archive, callvars, loopvars >>

\* ------------------------------------------ docker_sandbox.py: execute_code
FreshId == Cardinality(DOMAIN runtime) + Cardinality(created) + 1

RuntimeWith(r, id, status) == (id :> status) @@ r
RuntimeWithout(r, id) == [i \in DOMAIN r \ { id } |-> r[i]]

\* Variant: _create_container is called before the try, so its exception
\* leaves execute_code and is caught by the inner except of execute_task.
CreateContainerOutsideTry ==
    /\ pc = "create"
    /\ \/ /\ container' = FreshId
          /\ runtime' = RuntimeWith(runtime, FreshId, "created")
          /\ created' = created \cup { FreshId }
          /\ pc' = "start"
          /\ UNCHANGED task_result
       \/ /\ task_result' = [success |-> FALSE,
                             error |-> Message("Docker execution error: ",
                                               << "create" >>)]
          /\ pc' = "done"
          /\ UNCHANGED << container, runtime, created >>
    /\ UNCHANGED << uploaded_files, generated_code, validation_result,
                    input_files, proc, exec_result, execution_result,
                    sandbox_calls >>
    /\ UNCHANGED << archive, callvars, loopvars >>

\* Step 1: client.containers.create.  A failure is caught by except
\* Exception; container is still None, so finally cleans nothing up.
CreateContainer ==
    /\ pc = "create"
    /\ \/ /\ container' = FreshId
          /\ runtime' = RuntimeWith(runtime, FreshId, "created")
          /\ created' = created \cup { FreshId }
          /\ pc' = "start"
          /\ UNCHANGED execution_result
       \/ /\ execution_result' = FailureResult("create")
          /\ pc' = "sandbox_returned"
          /\ UNCHANGED << container, runtime, created >>
    /\ UNCHANGED << uploaded_files, generated_code, validation_result,
                    input_files, proc, exec_result, sandbox_calls, task_result >>
    /\ UNCHANGED << archive, callvars, loopvars >>

\* Variant: the staging step is left out, the program runs right after start.
StartContainerSkipsStaging ==
    /\ pc = "start"
    /\ \/ /\ runtime' = RuntimeWith(runtime, container, "running")
          /\ pc' = "exec"
          /\ proc' = Running
          /\ UNCHANGED execution_result
       \/ /\ execution_result' = FailureResult("start")
          /\ pc' = "stop"
          /\ UNCHANGED << runtime, proc >>
    /\ UNCHANGED << uploaded_files, generated_code, validation_result,
                    input_files, container, exec_result, sandbox_calls, created,
                    task_result >>
    /\ UNCHANGED << archive, callvars, loopvars >>

\* Step 2: container.start(); Step 3 follows only when input_files is non-empty.
StartContainer ==
    /\ pc = "start"
    /\ \/ /\ runtime' = RuntimeWith(runtime, container, "running")
          /\ pc' = IF input_files /= << >> THEN "copy" ELSE "exec"
          /\ proc' = IF input_files /= << >> THEN proc ELSE Running
          /\ UNCHANGED execution_result
       \/ /\ execution_result' = FailureResult("start")
          /\ pc' = "stop"
          /\ UNCHANGED << runtime, proc >>
    /\ UNCHANGED << uploaded_files, generated_code, validation_result,
                    input_files, container, exec_result, sandbox_calls, created,
                    task_result >>
    /\ UNCHANGED << archive, callvars, loopvars >>

\* Step 3: _copy_files_to_container, one put_archive of all the files.
CopyFiles ==
    /\ pc = "copy"
    /\ \/ /\ pc' = "exec"
          /\ proc' = Running
          /\ UNCHANGED execution_result
       \/ /\ execution_result' = FailureResult("put_archive")
          /\ pc' = "stop"
          /\ UNCHANGED proc
    /\ UNCHANGED << uploaded_files, generated_code, validation_result,
                    input_files, container, runtime, exec_result, sandbox_calls,
                    created, task_result >>
    /\ UNCHANGED << archive, callvars, loopvars >>

\* The program inside the container ends by itself (it need not).
ProgramExits ==
    /\ pc = "exec"
    /\ proc.state = "running"
    /\ \E outcome \in ProgramOutcomes : proc' = Exited(outcome)
    /\ UNCHANGED << pc, uploaded_files, generated_code, validation_result,
                    input_files, container, runtime, exec_result,
                    execution_result, sandbox_calls, created, task_result >>
    /\ UNCHANGED << archive, callvars, loopvars >>

\* Step 4: _execute_python_code.  container.exec_run blocks until the
\* process has ended and then gives its streams and exit code.
ExecRunReturns ==
    /\ pc = "exec"
    /\ proc.state = "exited"
    /\ exec_result' = [exit_code |-> proc.exit_code, output |-> proc.output,
                       error |-> proc.error]
    /\ pc' = "harvest"
    /\ UNCHANGED << uploaded_files, generated_code, validation_result,
                    input_files, container, runtime, proc, execution_result,
                    sandbox_calls, created, task_result >>
    /\ UNCHANGED << archive, callvars, loopvars >>

\* Step 4 when the Docker API call itself fails.
ExecRunRaises ==
    /\ pc = "exec"
    /\ execution_result' = FailureResult("exec_run")
    /\ pc' = "stop"
    /\ UNCHANGED << uploaded_files, generated_code, validation_result,
                    input_files, container, runtime, proc, exec_result,
                    sandbox_calls, created, task_result >>
    /\ UNCHANGED << archive, callvars, loopvars >>

\* Variant: _get_output_files lets an exception other than NotFound out,
\* into the except branch of execute_code.
HarvestRaisesOnError ==
    /\ pc = "harvest"
    /\ \E answer \in Archives :
         /\ archive' = answer
         /\ execution_result' =
                IF answer.status = "Error" THEN FailureResult("get_archive")
                ELSE ExecutionResult(exec_result.exit_code = 0, exec_result.output,
                         Message(exec_result.error, << >>), exec_result.exit_code,
                         _get_output_files(answer))
    /\ pc' = "stop"
    /\ UNCHANGED << uploaded_files, generated_code, validation_result,
                    input_files, container, runtime, proc, exec_result,
                    sandbox_calls, created, task_result >>
    /\ UNCHANGED << callvars, loopvars >>

\* Steps 5 and 6: _get_output_files, then the ExecutionResult to return.
Harvest ==
    /\ pc = "harvest"
    /\ \E answer \in Archives :
         /\ archive' = answer
         /\ execution_result' =
                ExecutionResult(exec_result.exit_code = 0, exec_result.output,
                    Message(exec_result.error, << >>), exec_result.exit_code,
                    _get_output_files(answer))
    /\ pc' = "stop"
    /\ UNCHANGED << uploaded_files, generated_code, validation_result,
                    input_files, container, runtime, proc, exec_result,
                    sandbox_calls, created, task_result >>
    /\ UNCHANGED << callvars, loopvars >>

\* finally: _cleanup_container.  container.stop(timeout=5) first; when it
\* raises, the except of _cleanup_container is entered and remove is skipped.
StopContainer ==
    /\ pc = "stop"
    /\ \/ /\ runtime' = RuntimeWith(runtime, container, "exited")
          /\ pc' = "remove"
       \/ /\ pc' = "sandbox_returned"
          /\ UNCHANGED runtime
    /\ UNCHANGED << uploaded_files, generated_code, validation_result,
                    input_files, container, proc, exec_result, execution_result,
                    sandbox_calls, created, task_result >>
    /\ UNCHANGED << archive, callvars, loopvars >>

\* container.remove(force=True); a failure is logged and swallowed.
RemoveContainer ==
    /\ pc = "remove"
    /\ \/ runtime' = RuntimeWithout(runtime, container)
       \/ UNCHANGED runtime
    /\ pc' = "sandbox_returned"
    /\ UNCHANGED << uploaded_files, generated_code, validation_result,
                    input_files, container, proc, exec_result, execution_result,
                    sandbox_calls, created, task_result >>
    /\ UNCHANGED << archive, callvars, loopvars >>

\* ------------------------------------- executor.py: execute_task, Step 3 end
\* Variant: the failure result leaves the program's standard output out.
ExecutionFailedResultNoOutput(r) ==
    [success |-> FALSE, error |-> Message("Code execution failed", << >>),
     details |-> r.error, output |-> ""]

ExecutionFailedResult(r) ==
    [success |-> FALSE, error |-> Message("Code execution failed", << >>),
     details |-> r.error, output |-> r.output]

CompletedResult(r) ==
    [success |-> TRUE, output |-> r.output, output_files |-> r.output_files,
     exit_code |-> r.exit_code]

ReturnResult ==
    /\ pc = "sandbox_returned"
    /\ task_result' = IF execution_result.success = FALSE
                      THEN ExecutionFailedResult(execution_result)
                      ELSE CompletedResult(execution_result)
    /\ pc' = "done"
    /\ UNCHANGED << uploaded_files, generated_code, validation_result,
                    input_files, container, runtime, proc, exec_result,
                    execution_result, sandbox_calls, created >>
    /\ UNCHANGED << archive, callvars, loopvars >>

\* The steps the code takes by itself once it is called.
CodeStep ==
    \/ Generate
    \/ Validate
    \/ ReadFiles
    \/ CreateContainer
    \/ StartContainer
    \/ CopyFiles
    \/ ExecRunReturns
    \/ Harvest
    \/ StopContainer
    \/ RemoveContainer
    \/ ReturnResult

Next ==
    \/ CodeStep
    \/ ProgramExits
    \/ ExecRunRaises

Spec == Init /\ [][Next]_vars

\* Every step of the code is eventually taken when it can be; the program in
\* the container is under no obligation to end, nor the Docker API to fail.
FairSpec == Spec /\ WF_vars(CodeStep)

\* ------------------- docker_sandbox.py: execute_code, several callers at once
\* Several callers run execute_code on the same DockerSandbox, one after the
\* other or interleaved.  They share self.client, the daemon behind it, and
\* nothing else: container is a local of each call.
\* How many calls of execute_code are made on the sandbox, by all callers.
MaxCalls == 3

RECURSIVE CallsOf(_)
CallsOf(cs) ==
    IF cs = { } THEN 0
    ELSE LET c == CHOOSE x \in cs : TRUE IN calls[c].n + CallsOf(cs \ { c })

\* The call a caller is in: the caller and the number of its call.
CallId(c) == << c, calls[c].n >>

\* client.containers.create answers with an id the daemon never gave before.
NewId == Cardinality(DOMAIN creator) + 1

\* Variant: the container is kept in an attribute of the sandbox, which every
\* call overwrites, so a call works on the container created last.
ContainerOfLastCreated(c) == Cardinality(DOMAIN creator)

\* The container a call works on: its local variable container.
ContainerOf(c) == calls[c].container

SetStatus(d, id, status) == IF id \in DOMAIN d THEN [d EXCEPT ![id] = status] ELSE d
Operated(id, c) == [users EXCEPT ![id] = @ \cup { CallId(c) }]
At(c, where) == calls[c].pc = where
Goto(c, where) == [calls EXCEPT ![c].pc = where]

\* execute_code is entered: container = None.
CallExecuteCode(c) ==
    /\ At(c, "idle")
    /\ CallsOf(Callers) < MaxCalls
    /\ \E staged \in BOOLEAN :
         calls' = [calls EXCEPT ![c] = [pc |-> "create", container |-> 0,
                                        n |-> calls[c].n + 1, staged |-> staged]]
    /\ UNCHANGED << daemon, creator, users >>
    /\ UNCHANGED << taskvars, loopvars >>

\* container = self._create_container()
CallCreate(c) ==
    /\ At(c, "create")
    /\ \/ /\ calls' = [calls EXCEPT ![c].pc = "start", ![c].container = NewId]
          /\ daemon' = (NewId :> "created") @@ daemon
          /\ creator' = (NewId :> CallId(c)) @@ creator
          /\ users' = (NewId :> { }) @@ users
       \/ /\ calls' = Goto(c, "return")
          /\ UNCHANGED << daemon, creator, users >>
    /\ UNCHANGED << taskvars, loopvars >>

\* container.start()
CallStart(c) ==
    /\ At(c, "start")
    /\ users' = Operated(ContainerOf(c), c)
    /\ \/ /\ daemon' = SetStatus(daemon, ContainerOf(c), "running")
          /\ calls' = Goto(c, IF calls[c].staged THEN "copy" ELSE "exec")
       \/ /\ calls' = Goto(c, "stop")
          /\ UNCHANGED daemon
    /\ UNCHANGED creator
    /\ UNCHANGED << taskvars, loopvars >>

\* self._copy_files_to_container(container, input_files)
CallCopy(c) ==
    /\ At(c, "copy")
    /\ users' = Operated(ContainerOf(c), c)
    /\ calls' = Goto(c, "exec") \/ calls' = Goto(c, "stop")
    /\ UNCHANGED << daemon, creator >>
    /\ UNCHANGED << taskvars, loopvars >>

\* self._execute_python_code(container, code)
CallExec(c) ==
    /\ At(c, "exec")
    /\ users' = Operated(ContainerOf(c), c)
    /\ calls' = Goto(c, "harvest") \/ calls' = Goto(c, "stop")
    /\ UNCHANGED << daemon, creator >>
    /\ UNCHANGED << taskvars, loopvars >>

\* self._get_output_files(container)
CallHarvest(c) ==
    /\ At(c, "harvest")
    /\ users' = Operated(ContainerOf(c), c)
    /\ calls' = Goto(c, "stop")
    /\ UNCHANGED << daemon, creator >>
    /\ UNCHANGED << taskvars, loopvars >>

\* finally: container.stop(timeout=5), which may fail and skip the remove.
CallStop(c) ==
    /\ At(c, "stop")
    /\ users' = Operated(ContainerOf(c), c)
    /\ \/ /\ daemon' = SetStatus(daemon, ContainerOf(c), "exited")
          /\ calls' = Goto(c, "remove")
       \/ /\ calls' = Goto(c, "return")
          /\ UNCHANGED daemon
    /\ UNCHANGED creator
    /\ UNCHANGED << taskvars, loopvars >>

\* container.remove(force=True)
CallRemove(c) ==
    /\ At(c, "remove")
    /\ users' = Operated(ContainerOf(c), c)
    /\ \/ daemon' = [i \in DOMAIN daemon \ { ContainerOf(c) } |-> daemon[i]]
       \/ UNCHANGED daemon
    /\ calls' = Goto(c, "return")
    /\ UNCHANGED creator
    /\ UNCHANGED << taskvars, loopvars >>

\* execute_code returns and its frame, with the local container, is gone.
CallReturn(c) ==
    /\ At(c, "return")
    /\ calls' = [calls EXCEPT ![c].pc = "idle", ![c].container = 0]
    /\ UNCHANGED << daemon, creator, users >>
    /\ UNCHANGED << taskvars, loopvars >>

SandboxInit == Init /\ uploaded_files = << >>

SandboxNext ==
    \E c \in Callers :
        \/ CallExecuteCode(c)
        \/ CallCreate(c)
        \/ CallStart(c)
        \/ CallCopy(c)
        \/ CallExec(c)
        \/ CallHarvest(c)
        \/ CallStop(c)
        \/ CallRemove(c)
        \/ CallReturn(c)

SandboxSpec == SandboxInit /\ [][SandboxNext]_vars


\* ------------------- api/v1/ai_executor.py: requests on one event loop
\* The endpoint execute_task is a coroutine; the event loop runs one
\* coroutine at a time and takes another only when the running one awaits
\* something that suspends it, or ends.  The handler suspends at
\* `await uploaded_file.read()`; AICodeExecutor.execute_task awaits only
\* _generate_code, a coroutine without a suspension point of its own, and
\* calls generate_content, validator.validate, open/read and
\* sandbox.execute_code as plain blocking calls.
Ready == { "arrived", "read_wait" }
Handler(where, outcome) == [pc |-> where, outcome |-> outcome]
OnLoop(r, where) == loop = r /\ requests[r].pc = where
Continue(r, where) == requests' = [requests EXCEPT ![r].pc = where]
Finish(r, outcome) == requests' = [requests EXCEPT ![r] = Handler("respond", outcome)]

\* A request comes in and its handler is scheduled on the loop.
RequestArrives(r) ==
    /\ requests[r].pc = "none"
    /\ Continue(r, "arrived")
    /\ UNCHANGED loop
    /\ UNCHANGED << taskvars, callvars >>

\* The idle loop runs a handler that is ready.
LoopResumes(r) ==
    /\ loop = "idle"
    /\ requests[r].pc \in Ready
    /\ loop' = r
    /\ Continue(r, IF requests[r].pc = "arrived" THEN "save_files" ELSE "execute_task")
    /\ UNCHANGED << taskvars, callvars >>

\* Step 2 of the handler: with files, `await uploaded_file.read()` hands
\* the loop back; with none, the handler runs on to executor.execute_task.
SaveFiles(r) ==
    /\ OnLoop(r, "save_files")
    /\ \/ Continue(r, "read_wait") /\ loop' = "idle"
       \/ Continue(r, "execute_task") /\ UNCHANGED loop
    /\ UNCHANGED << taskvars, callvars >>

\* execute_task, Step 1: _generate_code calls generate_content and returns,
\* or raises; the loop is not released.
GenerateOnLoop(r) ==
    /\ OnLoop(r, "execute_task")
    /\ Continue(r, "validate") \/ Finish(r, "error")
    /\ UNCHANGED loop
    /\ UNCHANGED << taskvars, callvars >>

\* Step 2 and the two checks on the verdict.
ValidateOnLoop(r) ==
    /\ OnLoop(r, "validate")
    /\ \/ Finish(r, "blocked")
       \/ Finish(r, "permission")
       \/ Continue(r, "sandbox")
    /\ UNCHANGED loop
    /\ UNCHANGED << taskvars, callvars >>

\* Step 3: self.sandbox.execute_code(...) is called and waited for on the
\* thread of the loop.
SandboxOnLoop(r) ==
    /\ OnLoop(r, "sandbox")
    /\ Finish(r, "completed") \/ Finish(r, "failed")
    /\ UNCHANGED loop
    /\ UNCHANGED << taskvars, callvars >>

\* The handler returns its response and the coroutine ends.
Respond(r) ==
    /\ OnLoop(r, "respond")
    /\ Continue(r, "done")
    /\ loop' = "idle"
    /\ UNCHANGED << taskvars, callvars >>

LoopInit == Init /\ uploaded_files = << >>

LoopNext ==
    \E r \in Requests :
        \/ RequestArrives(r)
        \/ LoopResumes(r)
        \/ SaveFiles(r)
        \/ GenerateOnLoop(r)
        \/ ValidateOnLoop(r)
        \/ SandboxOnLoop(r)
        \/ Respond(r)

LoopSpec == LoopInit /\ [][LoopNext]_vars

\* ======================================================================
\* Properties
\* ======================================================================
\* The vocabulary of the properties, written on the program's syntax and
\* independently of the validator's own scans.
HasVerdict == validation_result /= NoValidation
Parsed == generated_code.parse = "ok"
Verdict == validation_result
NodesOf(code) == { code.nodes[i] : i \in DOMAIN code.nodes }

ImportedRoots(code) ==
    UNION { { n.mods[i][1] : i \in { j \in DOMAIN n.mods : n.mods[j] /= << >> } } :
            n \in { m \in NodesOf(code) : m.type \in { "Import", "ImportFrom" } } }

BlockedRoots(code) == ImportedRoots(code) \cap HIGH_RISK_IMPORTS
CoreRoots(code) == ImportedRoots(code) \cap LOW_RISK_IMPORTS
FlaggedRoots(code) == ImportedRoots(code) \ (HIGH_RISK_IMPORTS \cup LOW_RISK_IMPORTS)

EvalPrimitives == { "eval", "exec", "compile", "__import__", "input" }

HasPrefix(p, prefix) ==
    /\ Len(p) >= Len(prefix)
    /\ \A i \in 1..Len(prefix) : p[i] = prefix[i]
UnderRoots(p) == HasPrefix(p, InputPrefix) \/ HasPrefix(p, OutputPrefix)

BareCall(n, names) == n.type = "Call" /\ n.fkind = "Name" /\ n.fname \in names
AttrCall(n, names) ==
    n.type = "Call" /\ n.fkind \in { "AttrName", "AttrOther" } /\ n.fname \in names

\* A call the builtin stage turns into HIGH: a primitive called by bare name,
\* or as an attribute of a receiver that is not a plain name.
FlaggedPrimitiveCall(n) ==
    \/ BareCall(n, EvalPrimitives)
    \/ n.type = "Call" /\ n.fkind = "AttrOther" /\ n.fname \in EvalPrimitives
\* An open call, bare or attribute-style, with a literal string outside the roots.
IllegalLiteralOpen(n) ==
    /\ BareCall(n, { "open" }) \/ AttrCall(n, { "open" })
    /\ n.akind = "str"
    /\ ~UnderRoots(n.path)
BareIllegalOpen(n) == IllegalLiteralOpen(n) /\ n.fkind = "Name"
BareLegalOpen(n) == BareCall(n, { "open" }) /\ n.akind = "str" /\ UnderRoots(n.path)
BareDynamicOpen(n) == BareCall(n, { "open" }) /\ n.akind = "dyn"

NoHighTrigger(code) ==
    /\ BlockedRoots(code) = { }
    /\ \A n \in NodesOf(code) : ~FlaggedPrimitiveCall(n) /\ ~IllegalLiteralOpen(n)

\* The paths a file-stage reason names.
NamedItems(reason) ==
    UNION { { reason.items[i].items[k] : k \in DOMAIN reason.items[i].items } :
            i \in DOMAIN reason.items }

\* C1: every ValidationResult validate returns has is_safe and
\* requires_permission fixed by its risk_level: high gives (False, False),
\* medium gives (True, True), low gives (True, False).
C1_TierDeterminesFlags ==
    HasVerdict =>
        /\ Verdict.risk_level \in { "low", "medium", "high" }
        /\ Verdict.risk_level = "high" =>
               Verdict.is_safe = FALSE /\ Verdict.requires_permission = FALSE
        /\ Verdict.risk_level = "medium" =>
               Verdict.is_safe = TRUE /\ Verdict.requires_permission = TRUE
        /\ Verdict.risk_level = "low" =>
               Verdict.is_safe = TRUE /\ Verdict.requires_permission = FALSE

\* A MEDIUM verdict that went through all three stages and the final pass.
C1_Witness ==
    /\ HasVerdict
    /\ Verdict.risk_level = "medium"
    /\ Len(Verdict.warnings) >= 2

\* C2: a parseable program with at least one import whose root module is in
\* the always-blocked set gets HIGH with is_safe False, whatever else it
\* contains, and restricted_imports holds every blocked root found.
C2_BlockedImportDominates ==
    (HasVerdict /\ Parsed /\ BlockedRoots(generated_code) /= { }) =>
        /\ Verdict.risk_level = "high"
        /\ Verdict.is_safe = FALSE
        /\ BlockedRoots(generated_code) \subseteq
               { Verdict.restricted_imports[i] : i \in DOMAIN Verdict.restricted_imports }

\* Two blocked roots, one by `import a.b` and one by `from a import b`.
C2_Witness ==
    /\ HasVerdict
    /\ Cardinality(BlockedRoots(generated_code)) = 2
    /\ Len(Verdict.restricted_imports) = 2

\* C3: once execute_code has returned, whatever the outcome of the call
\* (including a failure of the stop step of the cleanup), no container the
\* call created is still held by the container runtime.
C3_NoContainerRemains ==
    pc \in { "sandbox_returned", "done" } =>
        \A id \in created : id \notin DOMAIN runtime

\* C4: execute_code always eventually returns, also when the program in the
\* container never ends: the execution step is left after the timeout.
C4_ExecuteCodeReturns ==
    (pc = "exec") ~> (pc = "sandbox_returned")

\* C5: sandbox.execute_code is called, and a container created, only under
\* a LOW verdict (is_safe True, requires_permission False); under a HIGH or
\* a MEDIUM verdict the sandbox is never called and no container exists.
C5_SandboxOnlyWhenLow ==
    /\ (sandbox_calls > 0 \/ created /= { } \/ DOMAIN runtime /= { }) =>
           /\ HasVerdict
           /\ Verdict.risk_level = "low"
           /\ Verdict.is_safe = TRUE
           /\ Verdict.requires_permission = FALSE
    /\ (HasVerdict /\ Verdict.risk_level \in { "medium", "high" }) =>
           /\ sandbox_calls = 0
           /\ created = { }
           /\ pc = "done"

\* execute_task has finished a run of the sandbox on a LOW program.
C5_Witness ==
    /\ pc = "done"
    /\ sandbox_calls = 1
    /\ created /= { }
    /\ Verdict.risk_level = "low"
    /\ task_result.success = TRUE

\* The result C6 and its amendment promise.
LowWithAllRoots ==
    /\ Verdict.risk_level = "low"
    /\ Verdict.is_safe = TRUE
    /\ Verdict.requires_permission = FALSE
    /\ Verdict.allowed_imports = ImportedRoots(generated_code)

OnlyCoreImports(code) == ImportedRoots(code) \subseteq LOW_RISK_IMPORTS

\* C6 as stated: a parseable program whose imports are all core-trusted,
\* with no bare-name call to eval, exec, compile, __import__ or input and no
\* bare-name open of a literal path outside the two roots, gets LOW with
\* allowed_imports equal to the root modules found.
C6_Original ==
    (/\ HasVerdict
     /\ Parsed
     /\ OnlyCoreImports(generated_code)
     /\ \A n \in NodesOf(generated_code) :
            ~BareCall(n, EvalPrimitives) /\ ~BareIllegalOpen(n))
    => LowWithAllRoots

\* C6 as amended: the same, for programs that also have no call to one of the
\* five primitives as an attribute of a receiver that is not a plain name
\* (a.b.exec(...), f().eval(...)) and no attribute-style open (x.open(...))
\* of a literal string outside the two roots.
C6_CoreImportsGiveLow ==
    (/\ HasVerdict
     /\ Parsed
     /\ OnlyCoreImports(generated_code)
     /\ \A n \in NodesOf(generated_code) :
            ~FlaggedPrimitiveCall(n) /\ ~IllegalLiteralOpen(n))
    => LowWithAllRoots

\* A LOW verdict for a program that imports two core-trusted modules and
\* calls a method named eval on a plain name.
C6_Witness ==
    /\ HasVerdict
    /\ Verdict.risk_level = "low"
    /\ Cardinality(Verdict.allowed_imports) = 2
    /\ \E n \in NodesOf(generated_code) : AttrCall(n, { "eval" })

\* C7: a parseable program with nothing that triggers HIGH (no blocked
\* import, no call the builtin stage flags, no open of an illegal literal
\* path) and at least one conditionally-trusted or unknown import gets
\* MEDIUM with requires_permission True; restricted_imports lists exactly
\* the conditionally-trusted and unknown roots, each once, and
\* allowed_imports is the set of core-trusted roots found.
C7_FlaggedImportsGiveMedium ==
    (/\ HasVerdict
     /\ Parsed
     /\ NoHighTrigger(generated_code)
     /\ FlaggedRoots(generated_code) /= { })
    => /\ Verdict.risk_level = "medium"
       /\ Verdict.requires_permission = TRUE
       /\ { Verdict.restricted_imports[i] : i \in DOMAIN Verdict.restricted_imports }
              = FlaggedRoots(generated_code)
       /\ Len(Verdict.restricted_imports) = Cardinality(FlaggedRoots(generated_code))
       /\ Verdict.allowed_imports = CoreRoots(generated_code)

\* MEDIUM for a conditionally-trusted and an unknown import together.
C7_Witness ==
    /\ HasVerdict
    /\ Verdict.risk_level = "medium"
    /\ FlaggedRoots(generated_code) \cap MEDIUM_RISK_IMPORTS /= { }
    /\ FlaggedRoots(generated_code) \ MEDIUM_RISK_IMPORTS /= { }
    /\ Len(Verdict.restricted_imports) = 2

\* C8: validate hands its caller a result, never an exception: for a text
\* that cannot be parsed the verdict is HIGH with is_safe False and a
\* non-empty reason that describes the parse failure, and execute_task
\* goes on from the validation with that verdict.
C8_UnparseableIsHigh ==
    (pc /= "generate" /\ pc /= "validate" /\ ~Parsed) =>
        /\ HasVerdict
        /\ Verdict.risk_level = "high"
        /\ Verdict.is_safe = FALSE
        /\ Verdict.reason.isNone = FALSE
        /\ Verdict.reason.msg /= ""
        /\ Verdict.reason.items = << generated_code.parse >>
        /\ task_result = BlockedResult(Verdict)

\* The verdict of a text on which ast.parse raised SyntaxError.
C8_Witness ==
    /\ pc = "done"
    /\ generated_code.parse = "SyntaxError"
    /\ Verdict.risk_level = "high"

\* C9: in a program with no blocked import and no call the builtin stage
\* flags, a bare-name open whose first argument is a literal string that
\* starts with neither '/tmp/input' nor '/tmp/output' gives HIGH with a
\* reason that names that path; a bare-name open of a literal that starts
\* with one of the two prefixes is never named in the reason, and does not
\* make the verdict HIGH when the program has no HIGH trigger.
C9_LiteralOpenPaths ==
    (/\ HasVerdict
     /\ Parsed
     /\ BlockedRoots(generated_code) = { }
     /\ \A n \in NodesOf(generated_code) : ~FlaggedPrimitiveCall(n))
    => /\ \A n \in NodesOf(generated_code) :
            BareIllegalOpen(n) =>
                /\ Verdict.risk_level = "high"
                /\ Verdict.reason.isNone = FALSE
                /\ n.path \in NamedItems(Verdict.reason)
       /\ \A n \in NodesOf(generated_code) :
            BareLegalOpen(n) =>
                /\ n.path \notin NamedItems(Verdict.reason)
                /\ NoHighTrigger(generated_code) => Verdict.risk_level /= "high"

\* One program opens a path under a root and a path outside both: HIGH.
C9_Witness ==
    /\ HasVerdict
    /\ Verdict.risk_level = "high"
    /\ \E n \in NodesOf(generated_code) : BareIllegalOpen(n)
    /\ \E n \in NodesOf(generated_code) : BareLegalOpen(n)

\* C10: a bare-name open whose first argument is not a literal never makes
\* the verdict HIGH by itself (a HIGH verdict has another trigger), and when
\* the verdict is not HIGH the warnings of the result are non-empty and
\* hold the dynamic-path diagnostic.
C10_DynamicOpenWarns ==
    (/\ HasVerdict
     /\ Parsed
     /\ \E n \in NodesOf(generated_code) : BareDynamicOpen(n))
    => /\ Verdict.risk_level = "high" => ~NoHighTrigger(generated_code)
       /\ Verdict.risk_level /= "high" =>
            /\ Verdict.warnings /= << >>
            /\ \E i \in DOMAIN Verdict.warnings :
                   Verdict.warnings[i] = DynamicPathWarning

\* A LOW verdict whose only warning is the dynamic-path diagnostic.
C10_Witness ==
    /\ HasVerdict
    /\ Verdict.risk_level = "low"
    /\ \E n \in NodesOf(generated_code) : BareDynamicOpen(n)
    /\ Verdict.warnings = << DynamicPathWarning >>

\* C11: in a parseable program with no always-blocked import, a call by bare
\* name to eval, exec, compile, __import__ or input gives HIGH with is_safe
\* False and a reason that names the primitive called, whatever imports of
\* the other tiers and whatever other calls the program has.
C11_BarePrimitiveCallIsHigh ==
    (/\ HasVerdict
     /\ Parsed
     /\ BlockedRoots(generated_code) = { })
    => \A n \in NodesOf(generated_code) :
           BareCall(n, EvalPrimitives) =>
               /\ Verdict.risk_level = "high"
               /\ Verdict.is_safe = FALSE
               /\ Verdict.requires_permission = FALSE
               /\ Verdict.reason.isNone = FALSE
               /\ n.fname \in NamedItems(Verdict.reason)

\* HIGH for a bare input() in a program whose import alone would give MEDIUM.
C11_Witness ==
    /\ HasVerdict
    /\ Verdict.risk_level = "high"
    /\ FlaggedRoots(generated_code) /= { }
    /\ BlockedRoots(generated_code) = { }
    /\ \E n \in NodesOf(generated_code) : BareCall(n, { "input" })
    /\ "input" \in NamedItems(Verdict.reason)

\* execute_task has returned on a verdict that is HIGH for blocked imports.
BlockedForImports ==
    /\ pc = "done"
    /\ HasVerdict
    /\ Parsed
    /\ BlockedRoots(generated_code) /= { }

\* C13 as stated: when the verdict is HIGH because of blocked imports, the
\* result of execute_task is the blocked one and carries both the verdict's
\* rationale and the flagged imports (for `import os ...`, {"os"}).
C13_Original ==
    BlockedForImports =>
        /\ task_result.success = FALSE
        /\ task_result.reason = Verdict.reason
        /\ "restricted_imports" \in DOMAIN task_result
        /\ Range(task_result.restricted_imports) = BlockedRoots(generated_code)

\* C13 as amended: the blocked result has exactly the entries success
\* (False), error and reason; reason is the verdict's rationale, whose text
\* lists the blocked root modules, and the verdict's restricted_imports is
\* not copied into the result.
C13_BlockedCarriesReasonOnly ==
    BlockedForImports =>
        /\ DOMAIN task_result = { "success", "error", "reason" }
        /\ task_result.success = FALSE
        /\ task_result.error =
               Message("Generated code failed security validation", << >>)
        /\ task_result.reason = Verdict.reason
        /\ task_result.reason.isNone = FALSE
        /\ Range(task_result.reason.items) = BlockedRoots(generated_code)
        /\ Range(Verdict.restricted_imports) = BlockedRoots(generated_code)

\* The blocked result of a program that imports os.path and nothing else
\* that is blocked.
C13_Witness ==
    /\ BlockedForImports
    /\ BlockedRoots(generated_code) = { "os" }
    /\ task_result.reason.items = << "os" >>

\* C14: when the verdict is MEDIUM, the result of execute_task has
\* requires_permission True, restricted_imports equal to the verdict's and
\* code_preview equal to the program text that was given to the validator.
C14_PermissionCarriesCode ==
    (pc = "done" /\ HasVerdict /\ Verdict.risk_level = "medium") =>
        /\ "requires_permission" \in DOMAIN task_result
        /\ task_result.requires_permission = TRUE
        /\ task_result.success = FALSE
        /\ task_result.restricted_imports = Verdict.restricted_imports
        /\ task_result.code_preview = generated_code
        /\ Verdict = validate(task_result.code_preview)

\* The permission request for a program of two statements, one of them an
\* import that needs permission.
C14_Witness ==
    /\ pc = "done"
    /\ HasVerdict
    /\ Verdict.risk_level = "medium"
    /\ Len(generated_code.nodes) = 2
    /\ Len(task_result.restricted_imports) = 1
    /\ task_result.code_preview = generated_code

\* execute_code has been left by a call in which container creation succeeded.
LeftAfterCreation ==
    /\ pc \in { "sandbox_returned", "done" }
    /\ sandbox_calls > 0
    /\ created /= { }

\* The call failed inside execute_code (start, staging or the exec call), or
\* the program ended with a non-zero exit status.
InternalFailure == exec_result = NoExec
ProgramFailure == exec_result /= NoExec /\ exec_result.exit_code /= 0

\* C15 as stated: once container creation has succeeded, execute_code never
\* raises; a failure of start, of staging or of the code execution (a
\* non-zero exit included) is returned as an ExecutionResult with success
\* False and diagnostic text in error.
C15_Original ==
    LeftAfterCreation =>
        /\ execution_result /= NoExecution
        /\ (InternalFailure \/ ProgramFailure) =>
               /\ execution_result.success = FALSE
               /\ execution_result.error.isNone = FALSE
               /\ execution_result.error.msg /= ""

\* C15 as amended: the same, where error is 'Docker execution error: ' and
\* the exception for a failure of start, staging or the exec call, and is
\* the program's standard error, empty when the program wrote none, for a
\* non-zero exit.
C15_FailuresAreReturned ==
    LeftAfterCreation =>
        /\ execution_result /= NoExecution
        /\ InternalFailure =>
               /\ execution_result.success = FALSE
               /\ execution_result.error.msg = "Docker execution error: "
               /\ execution_result.error.items \in
                      { << "start" >>, << "put_archive" >>, << "exec_run" >> }
        /\ ProgramFailure =>
               /\ execution_result.success = FALSE
               /\ execution_result.error = Message(exec_result.error, << >>)
               /\ exec_result.error = proc.error

\* A failure of staging the input files, returned after the cleanup.
C15_Witness ==
    /\ LeftAfterCreation
    /\ input_files /= << >>
    /\ execution_result.success = FALSE
    /\ execution_result.error.items = << "put_archive" >>

\* execute_code has been left by a call in which container creation failed.
CreationFailed ==
    /\ pc \in { "sandbox_returned", "done" }
    /\ sandbox_calls > 0
    /\ created = { }

\* C16 as stated: a failure to create the container is propagated to the
\* caller of execute_code as an exception and is not converted into an
\* ExecutionResult.
C16_Original ==
    CreationFailed => execution_result = NoExecution

\* C16 as amended: a failure to create the container is caught inside
\* execute_code and returned as an ExecutionResult with success False,
\* exit_code -1, empty output and error 'Docker execution error: ' with the
\* exception; no container exists and none is cleaned up, and execute_task
\* reports it as a failed execution.
C16_CreationFailureIsReturned ==
    CreationFailed =>
        /\ execution_result =
               ExecutionResult(FALSE, "",
                   Message("Docker execution error: ", << "create" >>), -1, << >>)
        /\ container = 0
        /\ DOMAIN runtime = { }
        /\ pc = "done" => task_result = ExecutionFailedResult(execution_result)

\* execute_task has returned after a failed container creation.
C16_Witness ==
    /\ CreationFailed
    /\ pc = "done"
    /\ task_result.details = Message("Docker execution error: ", << "create" >>)

\* C17: every call of execute_code creates a new container of its own and
\* operates on that container only: no container is operated on by two
\* calls, be they one after the other or interleaved on one DockerSandbox.
C17_OwnContainerPerCall ==
    /\ \A id \in DOMAIN users : users[id] \subseteq { creator[id] }
    /\ \A id1, id2 \in DOMAIN creator : creator[id1] = creator[id2] => id1 = id2
    /\ \A c \in Callers :
           calls[c].container /= 0 => creator[calls[c].container] = CallId(c)

\* Two interleaved calls, one of them the second call of its caller, each
\* running its program in its own container while an earlier one remains.
C17_Witness ==
    /\ calls["t1"].pc = "harvest"
    /\ calls["t2"].pc = "harvest"
    /\ calls["t1"].n = 2
    /\ calls["t1"].container /= calls["t2"].container
    /\ users[calls["t1"].container] = { << "t1", 2 >> }
    /\ users[calls["t2"].container] = { << "t2", 1 >> }
    /\ Cardinality(DOMAIN daemon) = 3

\* C18: every ExecutionResult execute_code builds has success equal to
\* (exit_code = 0); when the program ran, exit_code is the exit status of
\* the program, and when execute_code failed internally success is False
\* and exit_code is -1.
C18_SuccessIffExitZero ==
    execution_result /= NoExecution =>
        /\ execution_result.success = (execution_result.exit_code = 0)
        /\ ~InternalFailure =>
               /\ proc.state = "exited"
               /\ execution_result.exit_code = proc.exit_code
        /\ InternalFailure =>
               /\ execution_result.success = FALSE
               /\ execution_result.exit_code = -1

\* The result of a program that ended with status 2, without any output.
C18_Witness ==
    /\ pc = "sandbox_returned"
    /\ proc.state = "exited"
    /\ proc.exit_code = 2
    /\ execution_result.exit_code = 2
    /\ execution_result.success = FALSE

\* The verdict is the HIGH result of the builtin stage.
BuiltinStageHigh ==
    /\ Verdict.risk_level = "high"
    /\ Verdict.reason.isNone = FALSE
    /\ Verdict.reason.items /= << >>
    /\ Verdict.reason.items[1].msg = "Dangerous builtin function call detected: "

\* The primitives the program calls in a way the amended C19 says is flagged.
FlaggedPrimitives(code) ==
    { n.fname : n \in { m \in NodesOf(code) : FlaggedPrimitiveCall(m) } }

\* C19 as stated: the builtin scan flags a call only when the callee is a
\* bare name; a primitive called as an attribute of any receiver (df.eval,
\* a.b.eval, f().eval) is never flagged and never makes the verdict HIGH.
C19_Original ==
    (/\ HasVerdict
     /\ Parsed
     /\ BlockedRoots(generated_code) = { }
     /\ \A n \in NodesOf(generated_code) :
            ~BareCall(n, EvalPrimitives) /\ ~IllegalLiteralOpen(n))
    => /\ Verdict.risk_level /= "high"
       /\ ~BuiltinStageHigh

\* C19 as amended: in a program with no blocked import, the builtin scan
\* flags the calls to one of the five primitives whose callee is a bare
\* name or an attribute of a receiver that is not a plain name (a.b.eval,
\* f().eval), and those make the verdict HIGH with a reason naming them; a
\* primitive called as an attribute of a plain name (df.eval) is never
\* flagged and does not make the verdict HIGH.
C19_AttributeOfPlainNameOnly ==
    (/\ HasVerdict
     /\ Parsed
     /\ BlockedRoots(generated_code) = { })
    => /\ FlaggedPrimitives(generated_code) /= { } =>
              /\ BuiltinStageHigh
              /\ NamedItems(Verdict.reason) = FlaggedPrimitives(generated_code)
       /\ FlaggedPrimitives(generated_code) = { } =>
              /\ ~BuiltinStageHigh
              /\ (\A n \in NodesOf(generated_code) : ~IllegalLiteralOpen(n))
                     => Verdict.risk_level /= "high"

\* df.eval("r") and a.b.exec(s) in one program: HIGH, and the reason names
\* exec alone.
C19_Witness ==
    /\ HasVerdict
    /\ \E n \in NodesOf(generated_code) :
           n.fkind = "AttrName" /\ n.fname = "eval"
    /\ \E n \in NodesOf(generated_code) :
           n.fkind = "AttrOther" /\ n.fname = "exec"
    /\ BuiltinStageHigh
    /\ NamedItems(Verdict.reason) = { "exec" }

\* An open call of any style whose first positional argument is missing or
\* is not a literal.
DynamicOpen(n) ==
    /\ BareCall(n, { "open" }) \/ AttrCall(n, { "open" })
    /\ n.akind \in { "none", "dyn" }

DynamicWarnings(warnings) ==
    { i \in DOMAIN warnings : warnings[i] = DynamicPathWarning }

\* C20 as stated: the file-path check applies to a bare-name open only; an
\* attribute-style x.open(...) is never checked, so it neither makes the
\* verdict HIGH nor adds the dynamic-path diagnostic.
C20_Original ==
    (/\ HasVerdict
     /\ Parsed
     /\ BlockedRoots(generated_code) = { }
     /\ \A n \in NodesOf(generated_code) :
            ~FlaggedPrimitiveCall(n) /\ ~BareCall(n, { "open" }))
    => /\ Verdict.risk_level /= "high"
       /\ DynamicWarnings(Verdict.warnings) = { }

\* C20 as amended: the file-path check applies to bare-name and
\* attribute-style open calls alike.  In a program that no earlier stage
\* blocks, x.open(...) with a literal string outside the two roots gives
\* HIGH with a reason naming the string, and when the verdict is not HIGH
\* every open call without a literal first argument, x.open(...) included,
\* has added one dynamic-path diagnostic.
C20_AttributeOpenIsChecked ==
    (/\ HasVerdict
     /\ Parsed
     /\ BlockedRoots(generated_code) = { }
     /\ \A n \in NodesOf(generated_code) : ~FlaggedPrimitiveCall(n))
    => /\ \A n \in NodesOf(generated_code) :
            (AttrCall(n, { "open" }) /\ IllegalLiteralOpen(n)) =>
                /\ Verdict.risk_level = "high"
                /\ Verdict.reason.isNone = FALSE
                /\ n.path \in NamedItems(Verdict.reason)
       /\ Verdict.risk_level /= "high" =>
            Cardinality(DynamicWarnings(Verdict.warnings)) =
                Cardinality({ i \in DOMAIN generated_code.nodes :
                                DynamicOpen(generated_code.nodes[i]) })

\* A LOW verdict for a program whose only open calls are two a.b.open(p):
\* two dynamic-path diagnostics.
C20_Witness ==
    /\ HasVerdict
    /\ Verdict.risk_level = "low"
    /\ Len(generated_code.nodes) = 2
    /\ \A n \in NodesOf(generated_code) : AttrCall(n, { "open" }) /\ n.akind = "dyn"
    /\ Verdict.warnings = << DynamicPathWarning, DynamicPathWarning >>

\* A parseable program with no blocked import and at least one
\* conditionally-trusted or unknown import.
FlaggedImportsOnly ==
    /\ HasVerdict
    /\ Parsed
    /\ BlockedRoots(generated_code) = { }
    /\ FlaggedRoots(generated_code) /= { }

\* C21 as stated: such a program gets MEDIUM (requires_permission True) at
\* the import stage; the builtin and file scans are reached only when the
\* imports are all core-trusted or absent, so they never change a MEDIUM
\* import verdict and add nothing to it.
C21_Original ==
    FlaggedImportsOnly =>
        /\ Verdict.risk_level = "medium"
        /\ Verdict.requires_permission = TRUE
        /\ Verdict = _check_imports(generated_code.nodes)

\* C21 as amended: the import stage returns at once only on HIGH.  A
\* program whose import stage gives MEDIUM goes through the builtin and the
\* file scans as well: a call either of them flags turns the verdict into
\* HIGH, and otherwise the final verdict is MEDIUM with requires_permission
\* True, the import stage's restricted_imports and, after the permission
\* warning, one dynamic-path diagnostic for every open call without a
\* literal first argument.
C21_MediumGoesThroughAllStages ==
    FlaggedImportsOnly =>
        /\ Verdict.risk_level = "high" <=>
               \E n \in NodesOf(generated_code) :
                   FlaggedPrimitiveCall(n) \/ IllegalLiteralOpen(n)
        /\ Verdict.risk_level /= "high" =>
               /\ Verdict.risk_level = "medium"
               /\ Verdict.requires_permission = TRUE
               /\ Range(Verdict.restricted_imports) = FlaggedRoots(generated_code)
               /\ Len(Verdict.warnings) =
                      1 + Cardinality({ i \in DOMAIN generated_code.nodes :
                                          DynamicOpen(generated_code.nodes[i]) })
               /\ Verdict.warnings[1].msg = "Requires user permission for: "

\* The verdict of `import requests` followed by an open of /etc/passwd:
\* HIGH from the file stage, not MEDIUM.
C21_Witness ==
    /\ FlaggedImportsOnly
    /\ \E n \in NodesOf(generated_code) : BareIllegalOpen(n)
    /\ Verdict.risk_level = "high"
    /\ Verdict.restricted_imports = << >>

\* The verdict is the HIGH result of the import stage, of the file stage.
ImportStageHigh ==
    /\ Verdict.risk_level = "high"
    /\ Verdict.is_safe = FALSE
    /\ Verdict.reason.isNone = FALSE
    /\ Verdict.reason.msg = "HIGH RISK imports detected (always blocked): "
FileStageHigh ==
    /\ Verdict.risk_level = "high"
    /\ Verdict.is_safe = FALSE
    /\ Verdict.reason.isNone = FALSE
    /\ Verdict.reason.msg = "File operation violations: "
    /\ Verdict.reason.items /= << >>
    /\ Verdict.reason.items[1].msg = "Unauthorized file access: "

\* C22: the checks are applied in the order imports, builtins, file paths
\* and the verdict is that of the earliest stage with a HIGH trigger: a
\* blocked import gives the import-stage reason and restricted_imports
\* whatever calls the program has; without one, a flagged primitive call
\* gives the builtin-stage reason, whatever open calls the program has;
\* the file-stage reason is given only when neither earlier stage has a
\* trigger.
C22_EarliestStageDecides ==
    (HasVerdict /\ Parsed) =>
        /\ BlockedRoots(generated_code) /= { } =>
               /\ ImportStageHigh
               /\ Range(Verdict.reason.items) = BlockedRoots(generated_code)
               /\ Range(Verdict.restricted_imports) = BlockedRoots(generated_code)
        /\ (/\ BlockedRoots(generated_code) = { }
            /\ FlaggedPrimitives(generated_code) /= { }) =>
               /\ BuiltinStageHigh
               /\ Verdict.is_safe = FALSE
               /\ \A i \in DOMAIN Verdict.reason.items :
                      Verdict.reason.items[i].msg =
                          "Dangerous builtin function call detected: "
               /\ Verdict.restricted_imports = << >>
        /\ (/\ BlockedRoots(generated_code) = { }
            /\ FlaggedPrimitives(generated_code) = { }
            /\ \E n \in NodesOf(generated_code) : IllegalLiteralOpen(n)) =>
               FileStageHigh
        /\ FileStageHigh =>
               /\ BlockedRoots(generated_code) = { }
               /\ FlaggedPrimitives(generated_code) = { }

\* A bare eval and an open of /etc/passwd in one program, in either order:
\* the builtin-stage reason.
C22_Witness ==
    /\ HasVerdict
    /\ \E n \in NodesOf(generated_code) : BareCall(n, { "eval" })
    /\ \E n \in NodesOf(generated_code) : BareIllegalOpen(n)
    /\ generated_code.nodes[1].fname = "open"
    /\ BuiltinStageHigh

\* C23: an import is classified by the first dotted segment of its module
\* path alone, in the same way for `import a.b.c`, `import a` and
\* `from a.b import y`: a blocked first segment gives HIGH and is listed in
\* restricted_imports; when the verdict is not HIGH a core-trusted first
\* segment is in allowed_imports and any other is in restricted_imports;
\* and the names recorded are first segments only.
C23_RootSegmentClassifies ==
    (HasVerdict /\ Parsed) =>
        /\ \A a \in ImportedRoots(generated_code) :
             /\ a \in HIGH_RISK_IMPORTS =>
                    /\ Verdict.risk_level = "high"
                    /\ a \in Range(Verdict.restricted_imports)
             /\ Verdict.risk_level /= "high" =>
                    /\ a \in LOW_RISK_IMPORTS <=> a \in Verdict.allowed_imports
                    /\ a \notin LOW_RISK_IMPORTS <=>
                           a \in Range(Verdict.restricted_imports)
        /\ Range(Verdict.restricted_imports) \cup Verdict.allowed_imports
               \subseteq ImportedRoots(generated_code)

\* `from urllib.request import urlopen` with `import pandas, json.decoder`:
\* urllib restricted, pandas and json allowed.
C23_Witness ==
    /\ HasVerdict
    /\ Verdict.risk_level = "medium"
    /\ Verdict.restricted_imports = << "urllib" >>
    /\ Verdict.allowed_imports = { "pandas", "json" }
    /\ \E n \in NodesOf(generated_code) : n.type = "ImportFrom" /\ Len(n.mods[1]) = 2

\* A path that denotes a file inside the directory dir: dir itself or
\* dir + "/" + ..., with no ".." step that could leave it.
InsideDirectory(p, dir) ==
    /\ HasPrefix(p, dir)
    /\ Len(p) > Len(dir) => p[Len(dir) + 1] = "/"
    /\ \A i \in 1..(Len(p) - 1) : ~(p[i] = "." /\ p[i + 1] = ".")
InsideRoots(p) == InsideDirectory(p, InputPrefix) \/ InsideDirectory(p, OutputPrefix)

\* C24: every literal path the file-operation check accepts denotes a file
\* inside /tmp/input or /tmp/output: in a program no earlier stage blocks,
\* an open of a literal that only shares the string prefix
\* ('/tmp/inputs', '/tmp/input/../x') is rejected with HIGH.
C24_AcceptedPathsAreInsideRoots ==
    (/\ HasVerdict
     /\ Parsed
     /\ BlockedRoots(generated_code) = { }
     /\ FlaggedPrimitives(generated_code) = { })
    => \A n \in NodesOf(generated_code) :
           (/\ BareCall(n, { "open" }) \/ AttrCall(n, { "open" })
            /\ n.akind = "str"
            /\ ~InsideRoots(n.path))
           => Verdict.risk_level = "high"

\* The returned result is made of the program's execution alone.
ResultOfProgramAlone ==
    /\ execution_result.success = (exec_result.exit_code = 0)
    /\ execution_result.output = exec_result.output
    /\ execution_result.error = Message(exec_result.error, << >>)
    /\ execution_result.exit_code = exec_result.exit_code

\* get_archive, or the decoding of what it sent, failed with something
\* other than NotFound.
HarvestFailed == execution_result /= NoExecution /\ archive.status = "Error"

\* C25 as stated: a failure during the output harvest, other than a missing
\* or empty output root, gives an ExecutionResult with success False and
\* diagnostic text in error, even when the program exited with status 0.
C25_Original ==
    HarvestFailed =>
        /\ execution_result.success = FALSE
        /\ execution_result.error.msg /= ""

\* C25 as amended: a failure during the output harvest is not reported in
\* the result: output_files is empty and success, output, error and
\* exit_code are those of the program's execution, so success is True when
\* the program exited with status 0.
C25_HarvestFailureIsSwallowed ==
    HarvestFailed =>
        /\ execution_result.output_files = << >>
        /\ ResultOfProgramAlone

\* execute_task reports success although the harvest failed.
C25_Witness ==
    /\ pc = "done"
    /\ HarvestFailed
    /\ execution_result.success = TRUE
    /\ task_result = CompletedResult(execution_result)

\* The output root was missing (NotFound), or held no regular file.
NoOutputFiles ==
    /\ execution_result /= NoExecution
    /\ \/ archive.status = "NotFound"
       \/ /\ archive.status = "ok"
          /\ \A i \in DOMAIN archive.members : ~archive.members[i].isfile

\* C26: when the output root does not exist or holds no file, execute_code
\* returns an empty output_files mapping, and success, output, error and
\* exit_code are those of the program's execution: the missing root is not
\* an error and does not change success.
C26_MissingOutputRootIsNoError ==
    NoOutputFiles =>
        /\ execution_result.output_files = << >>
        /\ DOMAIN execution_result.output_files = { }
        /\ ResultOfProgramAlone

\* A successful run whose output root did not exist.
C26_Witness ==
    /\ pc = "done"
    /\ archive.status = "NotFound"
    /\ execution_result.success = TRUE
    /\ task_result.output_files = << >>

\* The steps of one execute_code call follow one another in the order
\* create, start, stage, execute, harvest, cleanup.
StepsInOrder ==
    /\ pc' = "start" => pc = "create" /\ container' \in DOMAIN runtime'
    /\ pc' = "copy" =>
           /\ pc = "start"
           /\ input_files /= << >>
           /\ runtime'[container] = "running"
    /\ (pc' = "exec" /\ pc /= "exec") =>
           \/ pc = "copy"
           \/ pc = "start" /\ input_files = << >> /\ runtime'[container] = "running"
    /\ pc = "copy" => pc' \in { "exec", "stop" }
    /\ (proc' /= NoProc /\ proc = NoProc) => pc' = "exec"
    /\ (pc' = "stop" /\ pc \in { "start", "copy" }) => proc' = NoProc
    /\ pc' = "harvest" => pc = "exec" /\ proc.state = "exited"
    /\ pc' = "stop" => pc \in { "start", "copy", "exec", "harvest" }
    /\ pc' = "remove" => pc = "stop"
    /\ pc \in { "stop", "remove" } =>
           /\ pc' \in { "remove", "sandbox_returned" }
           /\ UNCHANGED << proc, exec_result, execution_result, archive >>
    /\ pc \in { "sandbox_returned", "done" } => UNCHANGED << runtime, proc >>

\* C27: within one execute_code call the steps occur in the order create,
\* start, stage inputs, execute, harvest, cleanup: the program is not run
\* before the container is started and the inputs are staged; staging is
\* one transfer and happens only when input_files is non-empty; after a
\* failure of start or staging the program is never run; and cleanup is
\* the last thing done to the container.
C27_StepsInOrder ==
    /\ [][StepsInOrder]_vars
    /\ [](proc /= NoProc =>
              /\ container \in created
              /\ execution_result.error.items \notin
                     { << "start" >>, << "put_archive" >> })

\* A run with input files that reached the end of the cleanup after the
\* program ended.
C27_Witness ==
    /\ pc = "sandbox_returned"
    /\ input_files /= << >>
    /\ proc.state = "exited"
    /\ archive.status = "ok"
    /\ DOMAIN runtime = { }

\* The regular files of the archive the harvest received.
ArchivedFiles == { i \in DOMAIN archive.members : archive.members[i].isfile }

\* C28: every regular file under the output root when the program has
\* finished appears in the returned output_files with its exact bytes,
\* files in subdirectories and files of different subdirectories with the
\* same base name included: none is dropped or overwritten by another.
C28_EveryOutputFileReturned ==
    (execution_result /= NoExecution /\ archive.status = "ok") =>
        /\ \A i \in ArchivedFiles :
               \E k \in DOMAIN execution_result.output_files :
                   execution_result.output_files[k] = archive.members[i].data
        /\ Cardinality(DOMAIN execution_result.output_files) =
               Cardinality(ArchivedFiles)

\* execute_task has returned after the sandbox gave a result with success
\* False.
SandboxFailed ==
    /\ pc = "done"
    /\ sandbox_calls > 0
    /\ execution_result /= NoExecution
    /\ execution_result.success = FALSE

\* C29 as stated: execute_task returns a failed outcome as it is: the
\* result carries the outcome's exit_code, output, error and output_files
\* unchanged, and the sandbox is not called a second time.
C29_Original ==
    SandboxFailed =>
        /\ sandbox_calls = 1
        /\ task_result.success = FALSE
        /\ task_result.output = execution_result.output
        /\ "exit_code" \in DOMAIN task_result
        /\ "output_files" \in DOMAIN task_result
        /\ task_result.exit_code = execution_result.exit_code
        /\ task_result.output_files = execution_result.output_files

\* C29 as amended: the result has exactly the entries success (False),
\* error ('Code execution failed'), details (the outcome's error text) and
\* output (the outcome's standard output); the outcome's exit_code and
\* output_files are not carried; and the sandbox is not called a second
\* time.
C29_FailedOutcomeIsSummarised ==
    SandboxFailed =>
        /\ sandbox_calls = 1
        /\ Cardinality(created) <= 1
        /\ DOMAIN task_result = { "success", "error", "details", "output" }
        /\ task_result.success = FALSE
        /\ task_result.error = Message("Code execution failed", << >>)
        /\ task_result.details = execution_result.error
        /\ task_result.output = execution_result.output

\* A program that printed, wrote a file and then failed: the file and the
\* exit status are not in the result.
C29_Witness ==
    /\ SandboxFailed
    /\ execution_result.exit_code = 1
    /\ execution_result.output_files /= << >>
    /\ task_result.output = "partial"
    /\ task_result.details = Message("Traceback", << >>)

====
